---- MODULE Spec2Model ----
(***************************************************************************)
(* A model of the Rocket.Chat reminder app (adrianYT028/rocket_chat_app):  *)
(* the natural-language date parser parseNaturalDate, the /remind slash    *)
(* command, the modal submit handler and the scheduled-job processor.      *)
(*                                                                         *)
(* Texts are sequences of one-character strings, so that the regular       *)
(* expressions and substring tests of the source are modelled by what they *)
(* match.  Instants are milliseconds since the epoch of one fixed local    *)
(* clock (no timezone offset, no daylight saving).                         *)
(***************************************************************************)
EXTENDS Integers, Sequences, FiniteSets, TLC

VARIABLES
    text,       \* parser run: the text handed to parseNaturalDate
    pnow,       \* parser run: the clock reading `new Date()` of the call
    parsed,     \* parser run: the value returned, or NotRun
    clock,      \* app: the host clock, in ms
    triggers,   \* app: the scheduler's registrations
    store,      \* app: the persistence store, records with their association
    out,        \* app: what the most recent handler did
    lastSched,  \* app: the most recent scheduleOnce call of the command layer
    firesSince, \* app: one-shot fire events since that call
    running,    \* app: the fire events whose processor has not yet returned
    sinceCancel, \* app: whether `stop` was the latest recurring command, and the
                \*      recurring fires that have completed since
    clearing    \* app: the `clear` commands that have read and not yet removed

parseVars == <<text, pnow, parsed>>
fireVars  == <<running, sinceCancel>>
appVars   == <<clock, triggers, store, out, lastSched, firesSince, running, sinceCancel,
               clearing>>
vars      == <<text, pnow, parsed, clock, triggers, store, out, lastSched, firesSince,
               running, sinceCancel, clearing>>

----------------------------------------------------------------------------
(* Characters and strings *)

Digit == {"0", "1", "2", "3", "4", "5", "6", "7", "8", "9"}

DigitVal(c) ==
    CASE c = "0" -> 0 [] c = "1" -> 1 [] c = "2" -> 2 [] c = "3" -> 3
      [] c = "4" -> 4 [] c = "5" -> 5 [] c = "6" -> 6 [] c = "7" -> 7
      [] c = "8" -> 8 [] c = "9" -> 9

LowerOf ==
    [A |-> "a", B |-> "b", C |-> "c", D |-> "d", E |-> "e", F |-> "f",
     G |-> "g", H |-> "h", I |-> "i", J |-> "j", K |-> "k", L |-> "l",
     M |-> "m", N |-> "n", O |-> "o", P |-> "p", Q |-> "q", R |-> "r",
     S |-> "s", T |-> "t", U |-> "u", V |-> "v", W |-> "w", X |-> "x",
     Y |-> "y", Z |-> "z"]

\* String.prototype.toLowerCase
toLowerCase(s) ==
    [i \in 1..Len(s) |-> IF s[i] \in DOMAIN LowerOf THEN LowerOf[s[i]] ELSE s[i]]

\* the regular expression engine's sticky match of a literal at index i
MatchAt(s, i, lit) ==
    /\ i >= 1
    /\ i + Len(lit) - 1 <= Len(s)
    /\ \A k \in 1..Len(lit) : s[i + k - 1] = lit[k]

\* String.prototype.includes
includes(s, lit) == \E i \in 1..Len(s) : MatchAt(s, i, lit)

IsDigitAt(s, i) == i >= 1 /\ i <= Len(s) /\ s[i] \in Digit

\* the index after the longest run of digits that starts at i (greedy \d+)
RECURSIVE DigitsEnd(_, _)
DigitsEnd(s, i) == IF IsDigitAt(s, i) THEN DigitsEnd(s, i + 1) ELSE i

\* the index after the longest run of white space that starts at i (greedy \s*)
RECURSIVE SpacesEnd(_, _)
SpacesEnd(s, i) ==
    IF i >= 1 /\ i <= Len(s) /\ s[i] = " " THEN SpacesEnd(s, i + 1) ELSE i

\* parseInt of a digit string
RECURSIVE parseInt(_)
parseInt(ds) ==
    IF Len(ds) = 0 THEN 0
    ELSE 10 * parseInt(SubSeq(ds, 1, Len(ds) - 1)) + DigitVal(ds[Len(ds)])

----------------------------------------------------------------------------
(* Dates: the Date methods the parser uses, on ms instants of the local clock *)

MsPerSecond == 1000
MsPerMinute == 60 * 1000
MsPerHour   == 60 * 60 * 1000
MsPerDay    == 24 * 60 * 60 * 1000

\* local midnight of the instant's calendar day
StartOfDay(t) == (t \div MsPerDay) * MsPerDay

\* Date.prototype.getDay: 0 = Sunday; day 0 of the epoch is a Thursday
getDay(t) == ((t \div MsPerDay) + 4) % 7

\* d.setDate(d.getDate() + k): k calendar days later, same time of day
addDays(t, k) == t + k * MsPerDay

\* d.setHours(h, m, 0, 0): that time on d's calendar day; out-of-range hours and
\* minutes carry into the following days, as Date normalises them
setHours(t, h, m) == StartOfDay(t) + h * MsPerHour + m * MsPerMinute

NoDate == [some |-> FALSE, time |-> 0]
SomeDate(t) == [some |-> TRUE, time |-> t]

----------------------------------------------------------------------------
(* parseNaturalDate *)

\* index of the first digit of s, 0 when s holds none: where the leftmost match
\* of /(\d{1,2})(?::(\d{2}))?\s*(am|pm)?/ starts
FirstDigit(s) ==
    IF \E i \in 1..Len(s) : s[i] \in Digit
    THEN CHOOSE i \in 1..Len(s) :
            /\ s[i] \in Digit
            /\ \A j \in 1..(i - 1) : s[j] \notin Digit
    ELSE 0

\* textLower.match(/(\d{1,2})(?::(\d{2}))?\s*(am|pm)?/): the three groups
timeMatch(s) ==
    LET p       == FirstDigit(s)
        hourEnd == IF IsDigitAt(s, p + 1) THEN p + 2 ELSE p + 1
        hasMin  == /\ MatchAt(s, hourEnd, <<":">>)
                   /\ IsDigitAt(s, hourEnd + 1)
                   /\ IsDigitAt(s, hourEnd + 2)
        minEnd  == IF hasMin THEN hourEnd + 3 ELSE hourEnd
        q       == SpacesEnd(s, minEnd)
    IN  IF p = 0 THEN [found |-> FALSE, g1 |-> <<>>, g2 |-> <<>>, g3 |-> ""]
        ELSE [found |-> TRUE,
              g1 |-> SubSeq(s, p, hourEnd - 1),
              g2 |-> IF hasMin THEN SubSeq(s, hourEnd + 1, hourEnd + 2) ELSE <<>>,
              g3 |-> IF MatchAt(s, q, <<"a", "m">>) THEN "am"
                     ELSE IF MatchAt(s, q, <<"p", "m">>) THEN "pm"
                     ELSE ""]

\* pm adding 12 to every hour, 12 included
MeridiemHourEveryPm(h, meridiem) ==
    LET h1 == IF meridiem = "pm" THEN h + 12 ELSE h
    IN  IF meridiem = "am" /\ h1 = 12 THEN 0 ELSE h1

\* lines 36-37: the hour after the meridiem adjustment
MeridiemHour(h, meridiem) ==
    LET h1 == IF meridiem = "pm" /\ h < 12 THEN h + 12 ELSE h
    IN  IF meridiem = "am" /\ h1 = 12 THEN 0 ELSE h1

\* lines 24-40: hour, minute and hasTime
ExtractTime(s) ==
    LET m == timeMatch(s)
    IN  IF m.found
        THEN [hasTime |-> TRUE,
              hour    |-> MeridiemHour(parseInt(m.g1), m.g3),
              minute  |-> IF Len(m.g2) > 0 THEN parseInt(m.g2) ELSE 0]
        ELSE [hasTime |-> FALSE, hour |-> 0, minute |-> 0]

In3 == <<"i", "n", " ">>

\* /in (\d+) <unit>/ matches at index i, <unit> one of the alternatives
RelMatchAt(s, i, alts) ==
    /\ MatchAt(s, i, In3)
    /\ IsDigitAt(s, i + 3)
    /\ \E u \in alts : MatchAt(s, DigitsEnd(s, i + 3), <<" ">> \o u)

\* group 1 of the leftmost match of /in (\d+) <unit>/, <<>> when there is none
RelMatch(s, alts) ==
    IF \E i \in 1..Len(s) : RelMatchAt(s, i, alts)
    THEN LET i == CHOOSE k \in 1..Len(s) :
                    /\ RelMatchAt(s, k, alts)
                    /\ \A j \in 1..(k - 1) : ~RelMatchAt(s, j, alts)
         IN  SubSeq(s, i + 3, DigitsEnd(s, i + 3) - 1)
    ELSE <<>>

\* days? | hours? | (?:minutes?|mins?) | (?:seconds?|secs?): the trailing s is
\* optional, so the alternatives below are the whole of each pattern's tail
DayAlts    == {<<"d", "a", "y">>}
HourAlts   == {<<"h", "o", "u", "r">>}
MinuteAlts == {<<"m", "i", "n", "u", "t", "e">>, <<"m", "i", "n">>}
SecondAlts == {<<"s", "e", "c", "o", "n", "d">>, <<"s", "e", "c">>}

\* the relative class trying the units in the order seconds, minutes, hours, days
RelativeClassSecondsFirst(s, now) ==
    LET daysMatch    == RelMatch(s, DayAlts)
        hoursMatch   == RelMatch(s, HourAlts)
        minutesMatch == RelMatch(s, MinuteAlts)
        secondsMatch == RelMatch(s, SecondAlts)
    IN  IF ~includes(s, In3) THEN NoDate
        ELSE IF Len(secondsMatch) > 0
             THEN SomeDate(now + parseInt(secondsMatch) * 1000)
        ELSE IF Len(minutesMatch) > 0
             THEN SomeDate(now + parseInt(minutesMatch) * 60 * 1000)
        ELSE IF Len(hoursMatch) > 0
             THEN SomeDate(now + parseInt(hoursMatch) * 60 * 60 * 1000)
        ELSE IF Len(daysMatch) > 0
             THEN SomeDate(now + parseInt(daysMatch) * 24 * 60 * 60 * 1000)
        ELSE NoDate

\* the relative class with the hour branch multiplying by the length of a minute
RelativeClassMinuteHours(s, now) ==
    LET daysMatch    == RelMatch(s, DayAlts)
        hoursMatch   == RelMatch(s, HourAlts)
        minutesMatch == RelMatch(s, MinuteAlts)
        secondsMatch == RelMatch(s, SecondAlts)
    IN  IF ~includes(s, In3) THEN NoDate
        ELSE IF Len(daysMatch) > 0
             THEN SomeDate(now + parseInt(daysMatch) * 24 * 60 * 60 * 1000)
        ELSE IF Len(hoursMatch) > 0
             THEN SomeDate(now + parseInt(hoursMatch) * 60 * 1000)
        ELSE IF Len(minutesMatch) > 0
             THEN SomeDate(now + parseInt(minutesMatch) * 60 * 1000)
        ELSE IF Len(secondsMatch) > 0
             THEN SomeDate(now + parseInt(secondsMatch) * 1000)
        ELSE NoDate

\* lines 43-66: the relative class; NoDate when the block returns nothing
RelativeClass(s, now) ==
    LET daysMatch    == RelMatch(s, DayAlts)
        hoursMatch   == RelMatch(s, HourAlts)
        minutesMatch == RelMatch(s, MinuteAlts)
        secondsMatch == RelMatch(s, SecondAlts)
    IN  IF ~includes(s, In3) THEN NoDate
        ELSE IF Len(daysMatch) > 0
             THEN SomeDate(now + parseInt(daysMatch) * 24 * 60 * 60 * 1000)
        ELSE IF Len(hoursMatch) > 0
             THEN SomeDate(now + parseInt(hoursMatch) * 60 * 60 * 1000)
        ELSE IF Len(minutesMatch) > 0
             THEN SomeDate(now + parseInt(minutesMatch) * 60 * 1000)
        ELSE IF Len(secondsMatch) > 0
             THEN SomeDate(now + parseInt(secondsMatch) * 1000)
        ELSE NoDate

Tomorrow == <<"t", "o", "m", "o", "r", "r", "o", "w">>
Tommorow == <<"t", "o", "m", "m", "o", "r", "o", "w">>
Tmrw     == <<"t", "m", "r", "w">>
Today    == <<"t", "o", "d", "a", "y">>
NextWord == <<"n", "e", "x", "t">>

\* line 69
HasTomorrow(s) == includes(s, Tomorrow) \/ includes(s, Tommorow) \/ includes(s, Tmrw)

\* the tomorrow class without the 09:00 default: the time of now is kept
TomorrowClassKeepsTime(tm, now) ==
    LET tomorrow == addDays(now, 1)
    IN  IF tm.hasTime THEN SomeDate(setHours(tomorrow, tm.hour, tm.minute))
        ELSE SomeDate(tomorrow)

\* lines 70-77
TomorrowClass(tm, now) ==
    LET tomorrow == addDays(now, 1)
    IN  IF tm.hasTime THEN SomeDate(setHours(tomorrow, tm.hour, tm.minute))
        ELSE SomeDate(setHours(tomorrow, 9, 0))

\* lines 82-86
TodayClass(tm, now) ==
    IF tm.hasTime THEN SomeDate(setHours(now, tm.hour, tm.minute))
    ELSE SomeDate(now)

\* line 90: days[i], index 0 = sunday
days ==
    <<<<"s", "u", "n", "d", "a", "y">>,
      <<"m", "o", "n", "d", "a", "y">>,
      <<"t", "u", "e", "s", "d", "a", "y">>,
      <<"w", "e", "d", "n", "e", "s", "d", "a", "y">>,
      <<"t", "h", "u", "r", "s", "d", "a", "y">>,
      <<"f", "r", "i", "d", "a", "y">>,
      <<"s", "a", "t", "u", "r", "d", "a", "y">>>>

HasWeekday(s) == \E i \in 0..6 : includes(s, days[i + 1])

\* the first i of the loop of line 91 with textLower.includes(days[i])
FirstWeekday(s) ==
    CHOOSE i \in 0..6 :
        /\ includes(s, days[i + 1])
        /\ \A j \in 0..(i - 1) : ~includes(s, days[j + 1])

\* the week is added only when the day has passed: today's weekday stays today
DaysToAddSameDayToday(targetDay, currentDay, hasNext) ==
    LET d == targetDay - currentDay
    IN  IF d < 0 \/ hasNext THEN d + 7 ELSE d

\* the week is added only when the day is not ahead: "next" is ignored
DaysToAddIgnoresNext(targetDay, currentDay, hasNext) ==
    LET d == targetDay - currentDay
    IN  IF d <= 0 THEN d + 7 ELSE d

\* lines 93-100
DaysToAdd(targetDay, currentDay, hasNext) ==
    LET d == targetDay - currentDay
    IN  IF d <= 0 \/ hasNext THEN d + 7 ELSE d

\* lines 93-110
WeekdayClass(s, tm, now) ==
    LET daysToAdd  == DaysToAdd(FirstWeekday(s), getDay(now), includes(s, NextWord))
        targetDate == addDays(now, daysToAdd)
    IN  IF tm.hasTime THEN SomeDate(setHours(targetDate, tm.hour, tm.minute))
        ELSE SomeDate(setHours(targetDate, 9, 0))

\* the bare time class refusing an hour above 23 or a minute above 59
BareTimeClassValidOnly(tm, now) ==
    LET result == setHours(now, tm.hour, tm.minute)
    IN  IF tm.hour > 23 \/ tm.minute > 59 THEN NoDate
        ELSE IF result <= now THEN SomeDate(addDays(result, 1)) ELSE SomeDate(result)

\* the bare time class rolling forward only when the time is strictly past
BareTimeClassStrictlyPast(tm, now) ==
    LET result == setHours(now, tm.hour, tm.minute)
    IN  IF result < now THEN SomeDate(addDays(result, 1)) ELSE SomeDate(result)

\* lines 115-124
BareTimeClass(tm, now) ==
    LET result == setHours(now, tm.hour, tm.minute)
    IN  IF result <= now THEN SomeDate(addDays(result, 1)) ELSE SomeDate(result)

\* lines 20-127
parseNaturalDate(t, now) ==
    LET textLower == toLowerCase(t)
        tm        == ExtractTime(textLower)
        rel       == RelativeClass(textLower, now)
    IN  IF rel.some THEN rel
        ELSE IF HasTomorrow(textLower) THEN TomorrowClass(tm, now)
        ELSE IF includes(textLower, Today) THEN TodayClass(tm, now)
        ELSE IF HasWeekday(textLower) THEN WeekdayClass(textLower, tm, now)
        ELSE IF tm.hasTime THEN BareTimeClass(tm, now)
        ELSE NoDate

----------------------------------------------------------------------------
(* The texts and clock readings the parser is run on *)

MaxN == 3

DigitChars == <<"0", "1", "2", "3", "4", "5", "6", "7", "8", "9">>

\* the decimal numeral of n >= 0
RECURSIVE NumStr(_)
NumStr(n) ==
    IF n < 10 THEN <<DigitChars[n + 1]>>
    ELSE NumStr(n \div 10) \o <<DigitChars[(n % 10) + 1]>>

\* two-digit numeral, as in 5:05
Pad2(n) == <<DigitChars[(n \div 10) + 1], DigitChars[(n % 10) + 1]>>

Sp == <<" ">>

\* the twelve spellings of the four units
UnitWords ==
    {<<"d", "a", "y">>, <<"d", "a", "y", "s">>,
     <<"h", "o", "u", "r">>, <<"h", "o", "u", "r", "s">>,
     <<"m", "i", "n", "u", "t", "e">>, <<"m", "i", "n", "u", "t", "e", "s">>,
     <<"m", "i", "n">>, <<"m", "i", "n", "s">>,
     <<"s", "e", "c", "o", "n", "d">>, <<"s", "e", "c", "o", "n", "d", "s">>,
     <<"s", "e", "c">>, <<"s", "e", "c", "s">>}

RelNs == (0..MaxN) \cup {12}

\* "in N <unit>"
RelText(n, u) == In3 \o NumStr(n) \o Sp \o u

CallMom == <<"c", "a", "l", "l", " ", "m", "o", "m">>
BuyApples == <<"b", "u", "y", " ", "2", " ", "a", "p", "p", "l", "e", "s">>
AtWord == <<"a", "t">>

\* a time of day as written: hour numeral, optional :MM (m = -1 when absent),
\* optional meridiem, optionally separated from the numeral by a blank
TimeStr(ts) ==
    NumStr(ts.h)
    \o (IF ts.m >= 0 THEN <<":">> \o Pad2(ts.m) ELSE <<>>)
    \o (IF ts.gap THEN Sp ELSE <<>>)
    \o (IF ts.mer = "am" THEN <<"a", "m">>
        ELSE IF ts.mer = "pm" THEN <<"p", "m">> ELSE <<>>)

HourSet   == {0, 1, 5, 9, 11, 12, 13, 17, 23, 24, 99}
MinuteSet == {-1, 0, 30, 59, 75}

BareTimeSpecs ==
    [h : HourSet, m : MinuteSet, mer : {"", "am", "pm"}, gap : {FALSE}]
    \cup [h : {5, 12}, m : {-1, 30}, mer : {"am", "pm"}, gap : {TRUE}]

DayTimeSpecs ==
    {[h |-> 5,  m |-> -1, mer |-> "pm", gap |-> FALSE],
     [h |-> 17, m |-> 0,  mer |-> "",   gap |-> FALSE],
     [h |-> 12, m |-> -1, mer |-> "am", gap |-> FALSE],
     [h |-> 9,  m |-> 30, mer |-> "am", gap |-> TRUE],
     [h |-> 25, m |-> -1, mer |-> "",   gap |-> FALSE]}

\* the words that anchor a date: the weekday names, today, and the tomorrows
DayWords == {days[i] : i \in 1..7} \cup {Today, Tomorrow, Tommorow, Tmrw}

\* "[next ]<day word>"
DayText(hasNext, w) == (IF hasNext THEN NextWord \o Sp ELSE <<>>) \o w

\* "[next ]<day word> at <time>"
DayTimeText(hasNext, w, ts) == DayText(hasNext, w) \o Sp \o AtWord \o Sp \o TimeStr(ts)

RelTexts == {RelText(n, u) : n \in RelNs, u \in UnitWords}

\* two relative phrases in one text, and a relative phrase after other words
MixedRelTexts ==
    {RelText(1, u1) \o Sp \o RelText(2, u2) :
        u1 \in {<<"d", "a", "y", "s">>, <<"h", "o", "u", "r">>, <<"m", "i", "n", "s">>, <<"s", "e", "c", "s">>},
        u2 \in {<<"d", "a", "y">>, <<"h", "o", "u", "r", "s">>, <<"m", "i", "n", "u", "t", "e", "s">>, <<"s", "e", "c", "o", "n", "d", "s">>}}
    \cup {CallMom \o Sp \o RelText(2, <<"h", "o", "u", "r", "s">>),
          <<"m", "a", "r", "t", "i", "n">> \o Sp \o NumStr(2) \o Sp \o <<"d", "a", "y", "s">>,
          RelText(2, <<"d", "a", "y", "s">>) \o Sp \o Tomorrow,
          Today \o Sp \o RelText(10, <<"m", "i", "n", "s">>),
          In3 \o <<"f", "i", "v", "e", " ", "d", "a", "y", "s">>,
          <<"S", "t", "a", "n", "d", "u", "p", " ", "I", "n", " ", "2", " ", "H", "o", "u", "r", "s">>}

DayTexts ==
    {DayText(nx, w) : nx \in BOOLEAN, w \in DayWords}
    \cup {DayTimeText(nx, w, ts) : nx \in BOOLEAN, w \in DayWords, ts \in DayTimeSpecs}
    \cup {CallMom \o Sp \o w : w \in DayWords}
    \cup {BuyApples \o Sp \o DayTimeText(FALSE, w, [h |-> 5, m |-> -1, mer |-> "pm", gap |-> FALSE]) :
            w \in {Tomorrow, Today, days[6]}}
    \cup {Today \o Sp \o Tomorrow, Tomorrow \o Sp \o Today,
          days[2] \o Sp \o days[6], days[6] \o Sp \o days[2],
          <<"D", "e", "n", "t", "i", "s", "t", " ", "N", "e", "x", "t", " ", "F", "R", "I", "D", "A", "Y">>, <<"T", "o", "m", "o", "r", "r", "o", "w">>}

BareTimeTexts ==
    {TimeStr(ts) : ts \in BareTimeSpecs}
    \cup {CallMom \o Sp \o AtWord \o Sp \o TimeStr(ts) :
            ts \in [h : {5, 17}, m : {-1, 30}, mer : {"", "pm"}, gap : {FALSE}]}
    \cup {<<"G", "y", "m", " ", "5", "P", "M">>}

PlainTexts == {CallMom, NextWord, <<"m", "a", "r", "t", "i", "n">>, <<"i", "n", " ", "a", " ", "w", "h", "i", "l", "e">>, <<>>}

Texts == RelTexts \cup MixedRelTexts \cup DayTexts \cup BareTimeTexts \cup PlainTexts

\* clock readings: every weekday, at times on both sides of 09:00 and 17:00
NowDays == 0..6
NowTimes ==
    {0,
     9 * MsPerHour,
     14 * MsPerHour,
     17 * MsPerHour,
     17 * MsPerHour + 1,
     18 * MsPerHour + 30 * MsPerMinute + 15 * MsPerSecond + 250,
     MsPerDay - 1}
Nows == {d * MsPerDay + t : d \in NowDays, t \in NowTimes}

NotRun == [done |-> FALSE, some |-> FALSE, time |-> 0]

----------------------------------------------------------------------------
(* The app: users, rooms, command arguments *)

Users == {"u1", "u2"}

\* user.username
Username(u) == IF u = "u1" THEN "alice" ELSE "bob"

\* the room each user types the command in: context.getRoom().id
RoomOf(u) == IF u = "u1" THEN "r1" ELSE "r2"

Tea  == <<"t", "e", "a">>
Milk == <<"m", "i", "l", "k">>

\* context.getArguments(): the words typed after /remind
OnceArgs ==
    {<<<<"s", "c", "h", "e", "d", "u", "l", "e">>>>, <<<<"S", "c", "h", "e", "d", "u", "l", "e">>, Tea>>,
     <<<<"i", "n">>, <<"4", "0">>, <<"s", "e", "c", "s">>>>, <<Today>>, <<<<"c", "a", "l", "l">>, <<"m", "o", "m">>>>,
     <<<<"h", "e", "l", "p">>>>, <<<<"?">>>>}

RecurArgs == {<<<<"r", "e", "c", "u", "r">>>>, <<<<"R", "e", "c", "u", "r">>, Tea>>, <<<<"s", "t", "o", "p">>>>}

StoreArgs == {<<<<"l", "i", "s", "t">>>>, <<<<"c", "l", "e", "a", "r">>>>, <<>>}

\* Array.prototype.join(' ')
RECURSIVE Join(_)
Join(ws) ==
    IF Len(ws) = 0 THEN <<>>
    ELSE IF Len(ws) = 1 THEN ws[1]
    ELSE ws[1] \o Sp \o Join(Tail(ws))

\* the branch of executor the arguments select: the chain of ifs of lines 198-360
Branch(args) ==
    LET a0 == IF Len(args) > 0 THEN toLowerCase(args[1]) ELSE <<>>
    IN  IF Len(args) > 0 /\ a0 = <<"s", "c", "h", "e", "d", "u", "l", "e">> THEN "schedule"
        ELSE IF Len(args) > 0 /\ a0 = <<"r", "e", "c", "u", "r">> THEN "recur"
        ELSE IF Len(args) > 0 /\ a0 = <<"s", "t", "o", "p">> THEN "stop"
        ELSE IF Len(args) > 0 /\ a0 = <<"l", "i", "s", "t">> THEN "list"
        ELSE IF Len(args) > 0 /\ a0 = <<"c", "l", "e", "a", "r">> THEN "clear"
        ELSE IF Len(args) > 0 /\ (a0 = <<"h", "e", "l", "p">> \/ args[1] = <<"?">>) THEN "help"
        ELSE IF Len(args) > 0 THEN "natural"
        ELSE "modal"

\* args.slice(1).join(' ') || fallback
TaskOr(args, fallback) ==
    LET t == Join(Tail(args)) IN IF Len(t) = 0 THEN fallback ELSE t

TakeABreak      == <<"T", "a", "k", "e", " ", "a", " ", "b", "r", "e", "a", "k">>
NaggingReminder == <<"N", "a", "g", "g", "i", "n", "g", " ", "r", "e", "m", "i", "n", "d", "e", "r">>
NoTask          == <<"n", "o", " ", "t", "a", "s", "k">>

\* the data of a job: lines 209-213, 235-239, 307-311
JobData(task, u) == [task |-> task, userId |-> u, roomId |-> RoomOf(u)]

NoData == [task |-> <<>>, userId |-> "", roomId |-> ""]

----------------------------------------------------------------------------
(* The scheduler the app schedules its jobs with *)

\* scheduleOnce: a registration under an id already armed replaces it
scheduleOnce(trigs, id, when, data) ==
    {t \in trigs : t.id # id}
    \cup {[id |-> id, kind |-> "once", at |-> when, data |-> data]}

\* the next boundary of the cron interval '* * * * *' after now
NextMinute(now) == ((now \div MsPerMinute) + 1) * MsPerMinute

\* scheduleRecurring: as scheduleOnce, firing on every minute boundary
scheduleRecurring(trigs, id, now, data) ==
    {t \in trigs : t.id # id}
    \cup {[id |-> id, kind |-> "recurring", at |-> NextMinute(now), data |-> data]}

\* whether a trigger is armed under the id
Armed(trigs, id) == \E t \in trigs : t.id = id

\* cancelJob: removes the registration; of an id that is not armed it reports
\* not-found, which the caller receives as a rejection
cancelJob(trigs, id) == {t \in trigs : t.id # id}

\* the triggers after t has fired at now: a one-shot is discarded, a recurring
\* one waits for the next boundary (missed boundaries are not made up)
AfterFire(trigs, t, now) ==
    IF t.kind = "once" THEN trigs \ {t}
    ELSE (trigs \ {t}) \cup {[t EXCEPT !.at = NextMinute(now)]}

\* the fires in progress after cancel(id): a fire already in progress is not
\* interrupted, and is marked as having been in progress when cancel was called
CancelledWhileRunning(fires, id) ==
    {IF r.job.id = id THEN [r EXCEPT !.cancelled = TRUE] ELSE r : r \in fires}

\* no `stop` since the latest `recur`
NotCancelled == [cancelled |-> FALSE, finished |-> 0]

\* when: '10 seconds'
TenSecondsFrom(now) == now + 10 * 1000

\* `schedule` scheduling under an id of its own
ScheduleJobIdOwn == "schedule_job"

\* the free-text branch scheduling under an id of its own
NaturalJobIdOwn == "natural_job"

\* `stop` cancelling the one-shot job's id
StopJobIdOneShot == "reminder_job"

\* lines 205, 305, 233: the ids the command layer schedules under
ScheduleJobId  == "reminder_job"
NaturalJobId   == "reminder_job"
RecurringJobId == "recurring_reminder"

\* line 254: the id `stop` cancels
StopJobId == "recurring_reminder"

\* lines 535-546: the ids a processor is registered for
Processors == {"reminder_job", "recurring_reminder"}

----------------------------------------------------------------------------
(* What a handler did: the messages it handed to the message creator, whether *)
(* an exception left it, whether it wrote to the error log                   *)

\* modify.getCreator().finish(message): ok is whether the call resolved
Msg(kind, room, ok) == [kind |-> kind, to |-> room, ok |-> ok, shown |-> <<>>, count |-> 0]

Idle == [op |-> "none", user |-> "", msgs |-> <<>>, escaped |-> FALSE, logged |-> FALSE]

\* one message, outside any try block: its failure leaves the handler
SendOnce(kind, room, ok) == [msgs |-> <<Msg(kind, room, ok)>>, escaped |-> ~ok]

\* try { finish(m) } catch { finish(onError) }: the second message is sent when
\* the first fails, and its own failure leaves the handler
SendOrReport(m, onError) ==
    IF m.ok THEN [msgs |-> <<m>>, escaped |-> FALSE]
    ELSE [msgs |-> <<m, onError>>, escaped |-> ~onError.ok]

NoSched == [some |-> FALSE, id |-> "", data |-> NoData, at |-> 0, superseded |-> FALSE]

\* the record of a scheduleOnce call at now: what it registered, and whether it
\* superseded a trigger of another payload and time that was not yet due
Sched(trigs, id, when, data, now) ==
    [some |-> TRUE, id |-> id, data |-> data, at |-> when,
     superseded |-> \E t \in trigs :
                        t.id = id /\ t.data # data /\ t.at # when /\ t.at > now]

----------------------------------------------------------------------------
(* /remind: the scheduling commands *)

MaxTicks == 4
TickMs == 20 * 1000

\* Sunday 4 January 1970, 14:00:40 local
StartInstant == 3 * MsPerDay + 14 * MsPerHour + 40 * MsPerSecond

\* the time that passes between the parser's clock reading and the executor's
ReadLags == {0, 1}

\* lines 198-224
Schedule(u, args, ok) ==
    /\ Branch(args) = "schedule"
    /\ LET task == TaskOr(args, TakeABreak)
           when == TenSecondsFrom(clock)
           sent == SendOnce("scheduled", RoomOf(u), ok)
       IN  /\ triggers' = scheduleOnce(triggers, ScheduleJobId, when, JobData(task, u))
           /\ lastSched' = Sched(triggers, ScheduleJobId, when, JobData(task, u), clock)
           /\ firesSince' = 0
           /\ out' = [op |-> "schedule", user |-> u, msgs |-> sent.msgs,
                      escaped |-> sent.escaped, logged |-> FALSE]
    /\ UNCHANGED <<clock, store>>
    /\ UNCHANGED parseVars
    /\ UNCHANGED clearing
    /\ UNCHANGED fireVars

\* lines 227-249
Recur(u, args, ok) ==
    /\ Branch(args) = "recur"
    /\ LET task == TaskOr(args, NaggingReminder)
           sent == SendOnce("recurring_started", RoomOf(u), ok)
       IN  /\ triggers' = scheduleRecurring(triggers, RecurringJobId, clock, JobData(task, u))
           /\ out' = [op |-> "recur", user |-> u, msgs |-> sent.msgs,
                      escaped |-> sent.escaped, logged |-> FALSE, before |-> triggers]
    /\ sinceCancel' = NotCancelled
    /\ UNCHANGED <<clock, store, lastSched, firesSince, running>>
    /\ UNCHANGED parseVars
    /\ UNCHANGED clearing

\* lines 252-271: the messages of `stop`, given whether cancelJob resolved
StopMessages(u, cancelled, ok1, ok2) ==
    IF cancelled
    THEN SendOrReport(Msg("stopped", RoomOf(u), ok1), Msg("not_found", RoomOf(u), ok2))
    ELSE SendOnce("not_found", RoomOf(u), ok1)

\* lines 252-271
Stop(u, args, ok1, ok2) ==
    /\ Branch(args) = "stop"
    /\ LET armed == Armed(triggers, StopJobId)
           sent  == StopMessages(u, armed, ok1, ok2)
       IN  /\ triggers' = cancelJob(triggers, StopJobId)
           /\ out' = [op |-> "stop", user |-> u, msgs |-> sent.msgs,
                      escaped |-> sent.escaped, logged |-> FALSE,
                      armed |-> armed,
                      removed |-> {t \in triggers : t.id = StopJobId},
                      kept |-> {t \in triggers : t.id # StopJobId}]
    /\ running' = CancelledWhileRunning(running, StopJobId)
    /\ sinceCancel' = [cancelled |-> TRUE, finished |-> 0]
    /\ UNCHANGED <<clock, store, lastSched, firesSince>>
    /\ UNCHANGED parseVars
    /\ UNCHANGED clearing

\* lines 285-288, 363-382
Help(u, args, ok) ==
    /\ Branch(args) = "help"
    /\ LET sent == SendOnce("help", RoomOf(u), ok)
       IN  out' = [op |-> "help", user |-> u, msgs |-> sent.msgs,
                   escaped |-> sent.escaped, logged |-> FALSE]
    /\ UNCHANGED <<clock, triggers, store, lastSched, firesSince>>
    /\ UNCHANGED parseVars
    /\ UNCHANGED clearing
    /\ UNCHANGED fireVars

\* the futurity check accepting an instant equal to now
NaturalOutcomeNotBefore(parsedDate, now) ==
    IF parsedDate.some
    THEN IF parsedDate.time - now >= 0 THEN "smart_schedule" ELSE "in_the_past"
    ELSE "didnt_catch"

\* lines 292-351: what the free-text branch decides, from the parser's result
\* and the executor's own clock reading
NaturalOutcome(parsedDate, now) ==
    IF parsedDate.some
    THEN IF parsedDate.time - now > 0 THEN "smart_schedule" ELSE "in_the_past"
    ELSE "didnt_catch"

\* lines 296-351: the free-text branch after the parser has returned
Natural(u, rawText, parsedDate, lag, ok) ==
    /\ LET outcome == NaturalOutcome(parsedDate, clock + lag)
           sent    == SendOnce(outcome, RoomOf(u), ok)
       IN  /\ IF outcome = "smart_schedule"
              THEN /\ triggers' = scheduleOnce(triggers, NaturalJobId, parsedDate.time,
                                               JobData(rawText, u))
                   /\ lastSched' = Sched(triggers, NaturalJobId, parsedDate.time,
                                         JobData(rawText, u), clock)
                   /\ firesSince' = 0
              ELSE UNCHANGED <<triggers, lastSched, firesSince>>
           /\ out' = [op |-> "natural", user |-> u, msgs |-> sent.msgs,
                      escaped |-> sent.escaped, logged |-> FALSE,
                      task |-> rawText, parsedDate |-> parsedDate, now |-> clock + lag,
                      calls |-> IF outcome = "smart_schedule" THEN 1 ELSE 0,
                      before |-> triggers]
    /\ UNCHANGED <<clock, store>>
    /\ UNCHANGED parseVars
    /\ UNCHANGED clearing
    /\ UNCHANGED fireVars

\* lines 292-294: the free-text branch, for any sender
FreeText(args) ==
    /\ Branch(args) = "natural"
    /\ LET rawText    == Join(args)
           parsedDate == parseNaturalDate(rawText, clock)
       IN  \E u \in Users, lag \in ReadLags, ok \in BOOLEAN :
               Natural(u, rawText, parsedDate, lag, ok)

----------------------------------------------------------------------------
(* The job processor *)

LookupResults == {"found", "missing", "error"}

\* the processor without its try block: a failed lookup or delivery leaves it
reminderProcessorNoCatch(data, userRes, roomRes, ok) ==
    IF userRes = "error"
    THEN [msgs |-> <<>>, logged |-> FALSE, escaped |-> TRUE,
          userRes |-> userRes, roomRes |-> "skipped", calls |-> <<"getUser">>]
    ELSE IF roomRes = "error"
    THEN [msgs |-> <<>>, logged |-> FALSE, escaped |-> TRUE,
          userRes |-> userRes, roomRes |-> roomRes, calls |-> <<"getUser", "getRoom">>]
    ELSE IF userRes = "found" /\ roomRes = "found"
    THEN [msgs |-> <<Msg("beep", data.roomId, ok)>>, logged |-> FALSE, escaped |-> ~ok,
          userRes |-> userRes, roomRes |-> roomRes,
          calls |-> <<"getUser", "getRoom", "finish">>]
    ELSE [msgs |-> <<>>, logged |-> FALSE, escaped |-> FALSE,
          userRes |-> userRes, roomRes |-> roomRes, calls |-> <<"getUser", "getRoom">>]

\* the processor with the guard `user || room`
reminderProcessorEitherFound(data, userRes, roomRes, ok) ==
    IF userRes = "error"
    THEN [msgs |-> <<>>, logged |-> TRUE, escaped |-> FALSE,
          userRes |-> userRes, roomRes |-> "skipped", calls |-> <<"getUser">>]
    ELSE IF roomRes = "error"
    THEN [msgs |-> <<>>, logged |-> TRUE, escaped |-> FALSE,
          userRes |-> userRes, roomRes |-> roomRes, calls |-> <<"getUser", "getRoom">>]
    ELSE IF userRes = "found" \/ roomRes = "found"
    THEN [msgs |-> <<Msg("beep", data.roomId, ok)>>, logged |-> ~ok, escaped |-> FALSE,
          userRes |-> userRes, roomRes |-> roomRes,
          calls |-> <<"getUser", "getRoom", "finish">>]
    ELSE [msgs |-> <<>>, logged |-> FALSE, escaped |-> FALSE,
          userRes |-> userRes, roomRes |-> roomRes, calls |-> <<"getUser", "getRoom">>]

\* lines 500-525: userRes and roomRes are what getById gives for data.userId and
\* data.roomId (an entity, undefined, or a rejection), ok whether finish resolved
reminderProcessor(data, userRes, roomRes, ok) ==
    IF userRes = "error"
    THEN [msgs |-> <<>>, logged |-> TRUE, escaped |-> FALSE,
          userRes |-> userRes, roomRes |-> "skipped", calls |-> <<"getUser">>]
    ELSE IF roomRes = "error"
    THEN [msgs |-> <<>>, logged |-> TRUE, escaped |-> FALSE,
          userRes |-> userRes, roomRes |-> roomRes, calls |-> <<"getUser", "getRoom">>]
    ELSE IF userRes = "found" /\ roomRes = "found"
    THEN [msgs |-> <<Msg("beep", data.roomId, ok)>>, logged |-> ~ok, escaped |-> FALSE,
          userRes |-> userRes, roomRes |-> roomRes,
          calls |-> <<"getUser", "getRoom", "finish">>]
    ELSE [msgs |-> <<>>, logged |-> FALSE, escaped |-> FALSE,
          userRes |-> userRes, roomRes |-> roomRes, calls |-> <<"getUser", "getRoom">>]

\* a trigger that is due fires: the scheduler calls the processor registered
\* under its id with its data
Fire(t, userRes, roomRes, ok) ==
    /\ t \in triggers
    /\ t.at <= clock
    /\ t.id \in Processors
    /\ LET r == reminderProcessor(t.data, userRes, roomRes, ok)
       IN  out' = [op |-> "fire", user |-> t.data.userId, msgs |-> r.msgs,
                   escaped |-> r.escaped, logged |-> r.logged,
                   job |-> t, userRes |-> r.userRes, roomRes |-> r.roomRes,
                   cancelled |-> FALSE, calls |-> r.calls]
    /\ triggers' = AfterFire(triggers, t, clock)
    /\ firesSince' = IF t.kind = "once" THEN firesSince + 1 ELSE firesSince
    /\ UNCHANGED <<clock, store, lastSched>>
    /\ UNCHANGED parseVars
    /\ UNCHANGED clearing
    /\ UNCHANGED fireVars

\* a trigger that is due begins to fire: the scheduler takes it (a one-shot is
\* discarded, a recurring one re-armed) and calls the processor, which has not
\* yet returned; two fires of one job id never run at the same time
FireBegin(t) ==
    /\ t \in triggers
    /\ t.at <= clock
    /\ t.id \in Processors
    /\ \A r \in running : r.job.id # t.id
    /\ triggers' = AfterFire(triggers, t, clock)
    /\ running' = running \cup {[job |-> t, cancelled |-> FALSE]}
    /\ firesSince' = IF t.kind = "once" THEN firesSince + 1 ELSE firesSince
    /\ out' = [op |-> "fire_begin", user |-> t.data.userId, msgs |-> <<>>,
               escaped |-> FALSE, logged |-> FALSE, job |-> t]
    /\ UNCHANGED <<clock, store, lastSched, sinceCancel>>
    /\ UNCHANGED parseVars
    /\ UNCHANGED clearing

\* the processor of a fire in progress returns: lines 500-525
FireEnd(r, userRes, roomRes, ok) ==
    /\ r \in running
    /\ LET p == reminderProcessor(r.job.data, userRes, roomRes, ok)
       IN  out' = [op |-> "fire", user |-> r.job.data.userId, msgs |-> p.msgs,
                   escaped |-> p.escaped, logged |-> p.logged,
                   job |-> r.job, userRes |-> p.userRes, roomRes |-> p.roomRes,
                   cancelled |-> r.cancelled, calls |-> p.calls]
    /\ running' = running \ {r}
    /\ sinceCancel' =
          IF sinceCancel.cancelled /\ r.job.id = RecurringJobId
          THEN [sinceCancel EXCEPT !.finished = @ + 1]
          ELSE sinceCancel
    /\ UNCHANGED <<clock, triggers, store, lastSched, firesSince>>
    /\ UNCHANGED parseVars
    /\ UNCHANGED clearing

MaxLagSteps == 3

\* 14:00:59.998 of the first day: two milliseconds before a minute boundary
LagStart == 3 * MsPerDay + 14 * MsPerHour + 59 * MsPerSecond + 998

\* a millisecond passes
Millisecond ==
    /\ clock < LagStart + MaxLagSteps
    /\ clock' = clock + 1
    /\ out' = Idle
    /\ UNCHANGED <<triggers, store, lastSched, firesSince>>
    /\ UNCHANGED parseVars
    /\ UNCHANGED clearing
    /\ UNCHANGED fireVars

\* free texts whose only cue is a time of day
LagArgs ==
    {<<<<"1", "4", ":", "0", "1">>>>,
     <<<<"2", ":", "0", "1", "p", "m">>>>,
     <<<<"1", "4", ":", "0", "2">>>>,
     <<<<"c", "a", "l", "l">>, <<"m", "o", "m">>, AtWord, <<"1", "4", ":", "0", "1">>>>}

\* time passes, while no trigger is due
Tick ==
    /\ clock < StartInstant + MaxTicks * TickMs
    /\ \A t \in triggers : t.at > clock
    /\ clock' = clock + TickMs
    /\ out' = Idle
    /\ UNCHANGED <<triggers, store, lastSched, firesSince>>
    /\ UNCHANGED parseVars
    /\ UNCHANGED clearing
    /\ UNCHANGED fireVars

----------------------------------------------------------------------------
(* The persistence store, the modal, list and clear *)

MaxRecords    == 2
MaxStoreTicks == 1

\* new RocketChatAssociationRecord(RocketChatAssociationModel.USER, id)
UserAssociation(id) == [model |-> "user", id |-> id]

\* list and clear reading by one association for every user
ReaderAssociationShared(u) == [model |-> "user", id |-> "u1"]

\* lines 389-392 and 447-450: the association `list` and `clear` read by
ReaderAssociation(u) == UserAssociation(u)

\* lines 570-573: the association the modal's record is stored under
WriterAssociation(u) == UserAssociation(u)

\* lines 576-585: the record the modal stores
NewRecord(task, u, now) ==
    [task |-> task, createdAt |-> now, completed |-> FALSE,
     userId |-> u, username |-> Username(u)]

\* persistence.createWithAssociation
createWithAssociation(st, data, assoc) == Append(st, [assoc |-> assoc, data |-> data])

\* the stored entries under an association
EntriesOf(st, assoc) == SelectSeq(st, LAMBDA e : e.assoc = assoc)

\* read.getPersistenceReader().readByAssociation: the records, oldest first
readByAssociation(st, assoc) ==
    LET es == EntriesOf(st, assoc) IN [i \in 1..Len(es) |-> es[i].data]

\* persis.removeByAssociation
removeByAssociation(st, assoc) == SelectSeq(st, LAMBDA e : e.assoc # assoc)

\* the direct room of a user: getDirectByUsernames([user.username])
DirectRoom(u) == IF Username(u) = "alice" THEN "d1" ELSE "d2"

\* lines 358-360: no arguments, the modal is opened when there is a trigger id
OpenModal(u, args, hasTriggerId) ==
    /\ Branch(args) = "modal"
    /\ out' = [op |-> "modal", user |-> u, msgs |-> <<>>, escaped |-> FALSE,
               logged |-> FALSE, opened |-> hasTriggerId]
    /\ UNCHANGED <<clock, triggers, store, lastSched, firesSince>>
    /\ UNCHANGED parseVars
    /\ UNCHANGED clearing
    /\ UNCHANGED fireVars

\* lines 169-180: sendDirectMessage; roomRes is what getDirectByUsernames gives.
\* failed is whether the call rejected
DirectMessage(kind, u, roomRes, ok) ==
    IF roomRes = "error" THEN [msgs |-> <<>>, failed |-> TRUE]
    ELSE IF roomRes = "found"
    THEN [msgs |-> <<Msg(kind, DirectRoom(u), ok)>>, failed |-> ~ok]
    ELSE [msgs |-> <<>>, failed |-> FALSE]

\* lines 556-597: input is the modal's task_input (empty when absent), createOk
\* whether createWithAssociation resolved
Submit(u, input, createOk, roomRes, ok) ==
    /\ Len(store) < MaxRecords
    /\ LET task == IF Len(input) = 0 THEN NoTask ELSE input
           dm   == DirectMessage("saved", u, roomRes, ok)
       IN  IF createOk
           THEN /\ store' = createWithAssociation(store, NewRecord(task, u, clock),
                                                  WriterAssociation(u))
                /\ out' = [op |-> "submit", user |-> u, msgs |-> dm.msgs,
                           escaped |-> FALSE, logged |-> dm.failed,
                           response |-> IF dm.failed THEN "error" ELSE "success",
                           created |-> TRUE]
           ELSE /\ store' = store
                /\ out' = [op |-> "submit", user |-> u, msgs |-> <<>>,
                           escaped |-> FALSE, logged |-> TRUE,
                           response |-> "error", created |-> FALSE]
    /\ UNCHANGED <<clock, triggers, lastSched, firesSince>>
    /\ UNCHANGED parseVars
    /\ UNCHANGED clearing
    /\ UNCHANGED fireVars

\* lines 407-427: the message that lists the reminders
ListMessage(reminders, room, ok) ==
    [Msg("list", room, ok) EXCEPT
        !.shown = [i \in 1..Len(reminders) |->
                     [task |-> reminders[i].task,
                      done |-> reminders[i].completed,
                      created |-> reminders[i].createdAt]],
        !.count = Len(reminders)]

\* lines 384-440: readOk is whether readByAssociation resolved
listReminders(u, st, readOk, ok1, ok2) ==
    LET room      == RoomOf(u)
        reminders == readByAssociation(st, ReaderAssociation(u))
        onError   == Msg("error_fetching", room, ok2)
    IN  IF ~readOk THEN SendOnce("error_fetching", room, ok2)
        ELSE IF Len(reminders) = 0
        THEN SendOrReport(Msg("no_reminders", room, ok1), onError)
        ELSE SendOrReport(ListMessage(reminders, room, ok1), onError)

\* lines 274-277
List(u, args, readOk, ok1, ok2) ==
    /\ Branch(args) = "list"
    /\ LET sent == listReminders(u, store, readOk, ok1, ok2)
       IN  out' = [op |-> "list", user |-> u, msgs |-> sent.msgs,
                   escaped |-> sent.escaped, logged |-> FALSE]
    /\ UNCHANGED <<clock, triggers, store, lastSched, firesSince>>
    /\ UNCHANGED parseVars
    /\ UNCHANGED clearing
    /\ UNCHANGED fireVars

\* lines 442-485: the store after `clear`, and its messages
clearReminders(u, st, readOk, removeOk, ok1, ok2) ==
    LET room      == RoomOf(u)
        assoc     == ReaderAssociation(u)
        reminders == readByAssociation(st, assoc)
        onError   == Msg("error_clearing", room, ok2)
        cleared   == [Msg("cleared", room, ok1) EXCEPT !.count = Len(reminders)]
    IN  IF ~readOk
        THEN [store |-> st] @@ SendOnce("error_clearing", room, ok2)
        ELSE IF Len(reminders) = 0
        THEN [store |-> st]
             @@ SendOrReport(Msg("nothing_to_clear", room, ok1), onError)
        ELSE IF ~removeOk
        THEN [store |-> st] @@ SendOnce("error_clearing", room, ok2)
        ELSE [store |-> removeByAssociation(st, assoc)] @@ SendOrReport(cleared, onError)

\* `clear` also cancelling every scheduled job
ClearAndCancel(u, args, readOk, removeOk, ok1, ok2) ==
    /\ Branch(args) = "clear"
    /\ LET r == clearReminders(u, store, readOk, removeOk, ok1, ok2)
       IN  /\ store' = r.store
           /\ out' = [op |-> "clear", user |-> u, msgs |-> r.msgs,
                      escaped |-> r.escaped, logged |-> FALSE, before |-> store]
    /\ triggers' = {}
    /\ UNCHANGED <<clock, lastSched, firesSince>>
    /\ UNCHANGED parseVars
    /\ UNCHANGED clearing
    /\ UNCHANGED fireVars

\* lines 279-283
Clear(u, args, readOk, removeOk, ok1, ok2) ==
    /\ Branch(args) = "clear"
    /\ LET r == clearReminders(u, store, readOk, removeOk, ok1, ok2)
       IN  /\ store' = r.store
           /\ out' = [op |-> "clear", user |-> u, msgs |-> r.msgs,
                      escaped |-> r.escaped, logged |-> FALSE, before |-> store]
    /\ UNCHANGED <<clock, triggers, lastSched, firesSince>>
    /\ UNCHANGED parseVars
    /\ UNCHANGED clearing
    /\ UNCHANGED fireVars

\* lines 442-457: `clear` as far as its read of the sender's records; with no
\* record, or a failed read, the command ends here, otherwise the count is held
\* while removeByAssociation is awaited
ClearBegin(u, args, readOk, ok1, ok2) ==
    /\ Branch(args) = "clear"
    /\ \A c \in clearing : c.user # u
    /\ LET reminders == readByAssociation(store, ReaderAssociation(u))
           r         == clearReminders(u, store, readOk, TRUE, ok1, ok2)
       IN  IF ~readOk \/ Len(reminders) = 0
           THEN /\ out' = [op |-> "clear", user |-> u, msgs |-> r.msgs,
                           escaped |-> r.escaped, logged |-> FALSE,
                           before |-> store, removed |-> 0]
                /\ clearing' = clearing
           ELSE /\ out' = [op |-> "clear_read", user |-> u, msgs |-> <<>>,
                           escaped |-> FALSE, logged |-> FALSE]
                /\ clearing' = clearing \cup {[user |-> u, count |-> Len(reminders)]}
    /\ UNCHANGED <<clock, triggers, store, lastSched, firesSince>>
    /\ UNCHANGED parseVars
    /\ UNCHANGED fireVars

\* lines 459-484: the rest of `clear`: removeByAssociation, then the message
\* with the count taken at the read
ClearEnd(c, removeOk, ok1, ok2) ==
    /\ c \in clearing
    /\ LET room    == RoomOf(c.user)
           assoc   == ReaderAssociation(c.user)
           onError == Msg("error_clearing", room, ok2)
           cleared == [Msg("cleared", room, ok1) EXCEPT !.count = c.count]
           sent    == IF removeOk THEN SendOrReport(cleared, onError)
                      ELSE SendOnce("error_clearing", room, ok2)
       IN  /\ store' = IF removeOk THEN removeByAssociation(store, assoc) ELSE store
           /\ out' = [op |-> "clear", user |-> c.user, msgs |-> sent.msgs,
                      escaped |-> sent.escaped, logged |-> FALSE,
                      before |-> store,
                      removed |-> IF removeOk THEN Len(EntriesOf(store, assoc)) ELSE 0]
    /\ clearing' = clearing \ {c}
    /\ UNCHANGED <<clock, triggers, lastSched, firesSince>>
    /\ UNCHANGED parseVars
    /\ UNCHANGED fireVars

\* time passes between the store commands
StoreTick ==
    /\ clock < StartInstant + MaxStoreTicks * TickMs
    /\ clock' = clock + TickMs
    /\ out' = Idle
    /\ UNCHANGED <<triggers, store, lastSched, firesSince>>
    /\ UNCHANGED parseVars
    /\ UNCHANGED clearing
    /\ UNCHANGED fireVars

\* what is typed into the modal's task input
ModalInputs == {Milk, <<>>}

----------------------------------------------------------------------------
(* Specifications *)

AppInit ==
    /\ clock = StartInstant
    /\ triggers = {}
    /\ store = <<>>
    /\ out = Idle
    /\ lastSched = NoSched
    /\ firesSince = 0
    /\ running = {}
    /\ sinceCancel = NotCancelled
    /\ clearing = {}

ParseIdle ==
    /\ text = <<>>
    /\ pnow = 0
    /\ parsed = NotRun

Init == AppInit /\ ParseIdle

\* a due trigger fires, with whatever the lookups and the delivery give
FireAny ==
    \E t \in triggers, userRes, roomRes \in LookupResults, ok \in BOOLEAN :
        Fire(t, userRes, roomRes, ok)

\* the one-shot commands (schedule, free text), help, the processor, the clock
NextOnce ==
    \/ \E u \in Users, args \in OnceArgs, ok \in BOOLEAN : Schedule(u, args, ok)
    \/ \E args \in OnceArgs : FreeText(args)
    \/ \E u \in Users, args \in OnceArgs, ok \in BOOLEAN : Help(u, args, ok)
    \/ FireAny
    \/ Tick

SpecOnce == Init /\ [][NextOnce]_vars

\* the recurring commands (recur, stop), the processor, the clock
NextRecur ==
    \/ \E u \in Users, args \in RecurArgs, ok \in BOOLEAN : Recur(u, args, ok)
    \/ \E u \in Users, args \in RecurArgs, ok1, ok2 \in BOOLEAN : Stop(u, args, ok1, ok2)
    \/ FireAny
    \/ Tick

SpecRecur == Init /\ [][NextRecur]_vars

\* both kinds of job and the processor
NextFire ==
    \/ \E u \in Users, args \in OnceArgs, ok \in BOOLEAN : Schedule(u, args, ok)
    \/ \E u \in Users, args \in RecurArgs, ok \in BOOLEAN : Recur(u, args, ok)
    \/ FireAny
    \/ Tick

SpecFire == Init /\ [][NextFire]_vars

\* recur and stop, with the processor's run taking time: a fire begins, and
\* ends later, and commands run in between
NextCancel ==
    \/ \E u \in Users, args \in RecurArgs, ok \in BOOLEAN : Recur(u, args, ok)
    \/ \E u \in Users, args \in RecurArgs, ok1, ok2 \in BOOLEAN : Stop(u, args, ok1, ok2)
    \/ \E t \in triggers : FireBegin(t)
    \/ \E r \in running, userRes, roomRes \in LookupResults, ok \in BOOLEAN :
            FireEnd(r, userRes, roomRes, ok)
    \/ Tick

SpecCancel == Init /\ [][NextCancel]_vars

\* the modal, list and clear
NextStore ==
    \/ \E u \in Users, args \in StoreArgs, hasTriggerId \in BOOLEAN :
            OpenModal(u, args, hasTriggerId)
    \/ \E u \in Users, input \in ModalInputs, createOk \in BOOLEAN,
          roomRes \in LookupResults, ok \in BOOLEAN :
            Submit(u, input, createOk, roomRes, ok)
    \/ \E u \in Users, args \in StoreArgs, readOk, ok1, ok2 \in BOOLEAN :
            List(u, args, readOk, ok1, ok2)
    \/ \E u \in Users, args \in StoreArgs, readOk, removeOk, ok1, ok2 \in BOOLEAN :
            Clear(u, args, readOk, removeOk, ok1, ok2)
    \/ StoreTick

SpecStore == Init /\ [][NextStore]_vars

\* records and one-shot jobs side by side: the modal (its confirmation
\* delivered), list, clear, schedule, the processor and the clock
NextLife ==
    \/ \E u \in Users, args \in OnceArgs, ok \in BOOLEAN : Schedule(u, args, ok)
    \/ \E u \in Users, createOk \in BOOLEAN : Submit(u, Milk, createOk, "found", TRUE)
    \/ \E u \in Users, args \in StoreArgs, readOk, ok1, ok2 \in BOOLEAN :
            List(u, args, readOk, ok1, ok2)
    \/ \E u \in Users, args \in StoreArgs, readOk, removeOk, ok1, ok2 \in BOOLEAN :
            Clear(u, args, readOk, removeOk, ok1, ok2)
    \/ FireAny
    \/ StoreTick

SpecLife == Init /\ [][NextLife]_vars

\* the modal and `clear`, the read and the removal of `clear` being two steps
\* with other handlers running in between
NextRace ==
    \/ \E u \in Users, input \in ModalInputs, createOk \in BOOLEAN,
          roomRes \in LookupResults, ok \in BOOLEAN :
            Submit(u, input, createOk, roomRes, ok)
    \/ \E u \in Users, args \in StoreArgs, readOk, ok1, ok2 \in BOOLEAN :
            ClearBegin(u, args, readOk, ok1, ok2)
    \/ \E c \in clearing, removeOk, ok1, ok2 \in BOOLEAN : ClearEnd(c, removeOk, ok1, ok2)
    \/ StoreTick

SpecRace == Init /\ [][NextRace]_vars

\* free text with a time of day, typed around a minute boundary
InitLag ==
    /\ clock = LagStart
    /\ triggers = {}
    /\ store = <<>>
    /\ out = Idle
    /\ lastSched = NoSched
    /\ firesSince = 0
    /\ running = {}
    /\ sinceCancel = NotCancelled
    /\ clearing = {}
    /\ ParseIdle

NextLag ==
    \/ \E args \in LagArgs : FreeText(args)
    \/ FireAny
    \/ Millisecond

SpecLag == InitLag /\ [][NextLag]_vars

\* every command, the processor and the clock together
Next ==
    \/ NextOnce \/ NextRecur \/ NextFire \/ NextCancel
    \/ NextStore \/ NextLife \/ NextRace \/ NextLag

Spec == Init /\ [][Next]_vars

\* one call of parseNaturalDate on a text and a clock reading
Resolve ==
    /\ ~parsed.done
    /\ parsed' = [done |-> TRUE] @@ parseNaturalDate(text, pnow)
    /\ UNCHANGED <<text, pnow>>
    /\ UNCHANGED appVars

InitParse ==
    /\ text \in Texts
    /\ pnow \in Nows
    /\ parsed = NotRun
    /\ AppInit

NextParse == Resolve

SpecParse == InitParse /\ [][NextParse]_vars

----------------------------------------------------------------------------
(* Properties *)

\* a time of day as written, on the 24-hour clock: pm is the afternoon, 12am is
\* midnight, no meridiem is the hour as written
Hour24(ts) ==
    IF ts.mer = "pm" THEN (ts.h % 12) + 12
    ELSE IF ts.mer = "am" THEN ts.h % 12
    ELSE ts.h

\* the time of day a written time stands for, in ms after midnight
ClockTime(ts) == Hour24(ts) * MsPerHour + (IF ts.m >= 0 THEN ts.m ELSE 0) * MsPerMinute

\* a written time with a valid hour and minute
ValidTime(ts) ==
    /\ ts.m <= 59
    /\ IF ts.mer = "" THEN ts.h <= 23 ELSE ts.h >= 1 /\ ts.h <= 12

\* the length of a unit, by its spelling
UnitLength(u) ==
    IF u \in {<<"d", "a", "y">>, <<"d", "a", "y", "s">>} THEN 24 * MsPerHour
    ELSE IF u \in {<<"h", "o", "u", "r">>, <<"h", "o", "u", "r", "s">>} THEN MsPerHour
    ELSE IF u \in {<<"m", "i", "n", "u", "t", "e">>, <<"m", "i", "n", "u", "t", "e", "s">>, <<"m", "i", "n">>, <<"m", "i", "n", "s">>} THEN MsPerMinute
    ELSE MsPerSecond

\* C1: two scheduleOnce calls under one job id, the second before the first has
\* fired, leave one registration: since the latest call there is at most one
\* one-shot fire, every one-shot fire carries the payload and the time of the
\* latest call, and the only pending one-shot trigger is the latest call's, so
\* the replaced payload is never delivered.
C1_ReplacedFiresOnce ==
    /\ firesSince <= 1
    /\ \A t \in triggers :
          t.kind = "once" => lastSched.some /\ t.data = lastSched.data /\ t.at = lastSched.at
    /\ (out.op = "fire" /\ out.job.kind = "once") =>
          /\ lastSched.some
          /\ firesSince = 1
          /\ out.job.data = lastSched.data
          /\ out.job.at = lastSched.at
          /\ out.job.at <= clock
          /\ \A t \in triggers : t.kind # "once"

C1_Witness ==
    /\ out.op = "fire"
    /\ out.job.kind = "once"
    /\ lastSched.superseded
    /\ firesSince = 1
    /\ out.job.data = lastSched.data
    /\ Len(out.msgs) = 1 /\ out.msgs[1].ok

\* C2: a fire event, one-shot or recurring, whose owner or destination does not
\* resolve (the lookup gives nothing, or rejects) makes no delivery attempt, and
\* no error leaves the processor.
C2_MissingEntityNoDelivery ==
    (out.op = "fire" /\ (out.userRes # "found" \/ out.roomRes # "found")) =>
        /\ out.msgs = <<>>
        /\ ~out.escaped

C2_Witness ==
    /\ out.op = "fire"
    /\ out.job.kind = "recurring"
    /\ out.userRes = "missing"
    /\ out.roomRes = "found"
    /\ out.msgs = <<>>

\* C3: "in N <unit>", for every N and every spelling of the four units, resolves
\* to now + N times the unit's length.
C3_RelativeDuration ==
    parsed.done =>
        \A n \in RelNs, u \in UnitWords :
            text = RelText(n, u) =>
                parsed.some /\ parsed.time = pnow + n * UnitLength(u)

C3_Witness ==
    /\ parsed.done
    /\ text = RelText(2, <<"h", "o", "u", "r", "s">>)
    /\ parsed.time = pnow + 2 * MsPerHour

\* the texts whose only cue is the time ts
BareTextsOf(ts) == {TimeStr(ts), CallMom \o Sp \o AtWord \o Sp \o TimeStr(ts)}

\* C4: a text whose only cue is a valid time of day resolves to today at that
\* time when that is strictly after now, otherwise to the next day at that
\* time; the result is strictly after now and at most 24 hours ahead.
C4_BareTime ==
    parsed.done =>
        \A ts \in BareTimeSpecs :
            (ValidTime(ts) /\ text \in BareTextsOf(ts)) =>
                LET today == StartOfDay(pnow) + ClockTime(ts)
                IN  /\ parsed.some
                    /\ parsed.time = IF today > pnow THEN today ELSE today + MsPerDay
                    /\ parsed.time > pnow
                    /\ parsed.time - pnow <= MsPerDay

C4_Witness ==
    /\ parsed.done
    /\ text = TimeStr([h |-> 5, m |-> -1, mer |-> "pm", gap |-> FALSE])
    /\ pnow - StartOfDay(pnow) = 17 * MsPerHour
    /\ parsed.time = pnow + MsPerDay

\* the texts that name the weekday of index i (0 = sunday), with or without
\* "next", and the time of day the result must have
WeekdayCases(i) ==
    {[text |-> DayText(nx, days[i + 1]), hasNext |-> nx, time |-> 9 * MsPerHour] :
        nx \in BOOLEAN}
    \cup {[text |-> DayTimeText(nx, days[i + 1], ts), hasNext |-> nx, time |-> ClockTime(ts)] :
            nx \in BOOLEAN, ts \in {x \in DayTimeSpecs : ValidTime(x)}}

C6_LaterWeekday ==
    parsed.done =>
        \A i \in 0..6 :
            i > getDay(pnow) =>
                \A c \in WeekdayCases(i) :
                    text = c.text =>
                        /\ parsed.some
                        /\ parsed.time =
                              StartOfDay(pnow) + c.time
                              + (i - getDay(pnow) + (IF c.hasNext THEN 7 ELSE 0)) * MsPerDay

C6_Witness ==
    /\ parsed.done
    /\ getDay(pnow) = 3
    /\ text = DayText(TRUE, days[6])
    /\ StartOfDay(parsed.time) = StartOfDay(pnow) + 9 * MsPerDay

\* C7: a text with "tomorrow", "tommorow" or "tmrw" and no digit resolves to the
\* day after now's date at 09:00:00.000, whatever the time of now.
C7_TomorrowDefault ==
    parsed.done =>
        ((HasTomorrow(toLowerCase(text)) /\ \A k \in 1..Len(text) : text[k] \notin Digit) =>
            /\ parsed.some
            /\ parsed.time = StartOfDay(pnow) + MsPerDay + 9 * MsPerHour)

C7_Witness ==
    /\ parsed.done
    /\ text = Tomorrow
    /\ pnow - StartOfDay(pnow) > 18 * MsPerHour
    /\ parsed.time = StartOfDay(pnow) + MsPerDay + 9 * MsPerHour

\* C8: `stop` with no recurring trigger armed reports not-found to the requester
\* and not the stopped confirmation, lets no exception leave the command, and
\* changes no trigger.
C8_StopOfAbsent ==
    (out.op = "stop" /\ ~out.armed) =>
        /\ Len(out.msgs) = 1
        /\ out.msgs[1].kind = "not_found"
        /\ out.msgs[1].ok
        /\ ~out.escaped
        /\ triggers = out.kept

\* the stored records an owner has, as `list` shows them
ShownOf(st, u) ==
    LET own == SelectSeq(st, LAMBDA e : e.data.userId = u)
    IN  [i \in 1..Len(own) |->
            [task |-> own[i].data.task, done |-> own[i].data.completed,
             created |-> own[i].data.createdAt]]

NotOwnedBy(st, u) == SelectSeq(st, LAMBDA e : e.data.userId # u)

\* C9: `list` by U shows U's records and no other; `clear` by U leaves every
\* other owner's records as they were, removes either all of U's records or
\* none, and after the cleared message none of U's is left.
C9_RecordIsolation ==
    /\ out.op = "list" =>
          \A k \in 1..Len(out.msgs) :
              /\ out.msgs[k].kind = "list" => out.msgs[k].shown = ShownOf(store, out.user)
              /\ out.msgs[k].kind = "no_reminders" => ShownOf(store, out.user) = <<>>
    /\ out.op = "clear" =>
          /\ NotOwnedBy(store, out.user) = NotOwnedBy(out.before, out.user)
          /\ store \in {out.before, NotOwnedBy(out.before, out.user)}
          /\ (\E k \in 1..Len(out.msgs) : out.msgs[k].kind = "cleared") =>
                store = NotOwnedBy(out.before, out.user)

C9_Witness ==
    /\ out.op = "clear"
    /\ Len(out.before) = 2
    /\ Len(store) = 1
    /\ store[1].data.userId # out.user
    /\ out.msgs[1].kind = "cleared" /\ out.msgs[1].count = 1

\* C10: `stop` by U leaves armed every recurring trigger started by another user.
C10_StopOnlyOwn ==
    out.op = "stop" =>
        \A t \in out.removed \cup out.kept :
            (t.kind = "recurring" /\ t.data.userId # out.user) => t \in triggers

\* C11: a `recur` by one user leaves armed the recurring trigger of every other
\* user: the triggers armed before the command for another user's task are
\* armed after it, with their task, user and room.
C11_RecurNoCollision ==
    out.op = "recur" =>
        \A t \in out.before :
            (t.kind = "recurring" /\ t.data.userId # out.user) =>
                \E t2 \in triggers : t2.kind = "recurring" /\ t2.data = t.data

\* C12: a free-text command sends one message and ends in exactly one of three
\* outcomes, decided by the resolver's result and the clock reading of the
\* command: an instant strictly after now, one scheduleOnce call for that
\* instant with the text as task, and the smart-schedule message; an instant not
\* after now, the in-the-past message and no change of the triggers; no instant,
\* the could-not-understand message and no change of the triggers.
C12_FreeTextOutcomes ==
    out.op = "natural" =>
        LET d         == out.parsedDate
            scheduled == /\ d.some /\ d.time > out.now
                         /\ out.msgs[1].kind = "smart_schedule"
                         /\ out.calls = 1
                         /\ [id |-> NaturalJobId, kind |-> "once", at |-> d.time,
                             data |-> JobData(out.task, out.user)] \in triggers
                         /\ lastSched.some /\ lastSched.at = d.time
            past      == /\ d.some /\ d.time <= out.now
                         /\ out.msgs[1].kind = "in_the_past"
                         /\ out.calls = 0
                         /\ triggers = out.before
            none      == /\ ~d.some
                         /\ out.msgs[1].kind = "didnt_catch"
                         /\ out.calls = 0
                         /\ triggers = out.before
        IN  /\ Len(out.msgs) = 1
            /\ scheduled \/ past \/ none
            /\ ~(scheduled /\ past) /\ ~(scheduled /\ none) /\ ~(past /\ none)

C12_Witness ==
    /\ out.op = "natural"
    /\ out.parsedDate.some
    /\ out.parsedDate.time = out.now
    /\ out.msgs[1].kind = "in_the_past"
    /\ triggers # {}
    /\ triggers = out.before

\* whether the lowered text holds a digit, a recognized "in N <unit>" phrase, a
\* today / tomorrow / weekday word
HasDigit(s) == \E k \in 1..Len(s) : s[k] \in Digit

HasRelPhrase(s) ==
    \E alts \in {DayAlts, HourAlts, MinuteAlts, SecondAlts} : Len(RelMatch(s, alts)) > 0

HasDayWord(s) == includes(s, Today) \/ HasTomorrow(s) \/ HasWeekday(s)

\* C13: the resolver returns no instant exactly when the text holds no
\* recognized "in N <unit>" phrase, no today / tomorrow / weekday word and no
\* digit; every text with a digit resolves to an instant.
C13_NoneIffNoClass ==
    parsed.done =>
        LET s == toLowerCase(text)
        IN  /\ ~parsed.some <=> (~HasRelPhrase(s) /\ ~HasDayWord(s) /\ ~HasDigit(s))
            /\ HasDigit(s) => parsed.some

C13_Witness ==
    /\ parsed.done
    /\ text = TimeStr([h |-> 99, m |-> 75, mer |-> "", gap |-> FALSE])
    /\ parsed.some

\* the result of the first matching class in the order relative duration,
\* today, tomorrow, weekday name, bare time of day
FirstClassInOrder(t, now) ==
    LET s   == toLowerCase(t)
        tm  == ExtractTime(s)
        rel == RelativeClass(s, now)
    IN  IF rel.some THEN rel
        ELSE IF includes(s, Today) THEN TodayClass(tm, now)
        ELSE IF HasTomorrow(s) THEN TomorrowClass(tm, now)
        ELSE IF HasWeekday(s) THEN WeekdayClass(s, tm, now)
        ELSE IF tm.hasTime THEN BareTimeClass(tm, now)
        ELSE NoDate

\* C14: the result is the one of the first matching class in the order relative
\* duration, today, tomorrow, weekday name, bare time of day; a text with both
\* "today" and "tomorrow" is resolved by the today class.
C14_FirstClassWins ==
    parsed.done =>
        LET r == FirstClassInOrder(text, pnow)
        IN  parsed.some = r.some /\ parsed.time = r.time

\* C15: once `stop` has cancelled the recurring job (and no `recur` has followed)
\* no trigger is armed under its id and no fire of it begins; the only fire of it
\* that can still be in progress or complete is the one that was in progress
\* when cancel was called, and there is at most one.
C15_NoFireAfterCancel ==
    sinceCancel.cancelled =>
        LET inProgress == {r \in running : r.job.id = RecurringJobId}
        IN  /\ ~Armed(triggers, RecurringJobId)
            /\ \A r \in inProgress : r.cancelled
            /\ Cardinality(inProgress) + sinceCancel.finished <= 1
            /\ out.op = "fire_begin" => out.job.id # RecurringJobId
            /\ (out.op = "fire" /\ out.job.id = RecurringJobId) => out.cancelled

C15_Witness ==
    /\ sinceCancel.cancelled
    /\ sinceCancel.finished = 1
    /\ out.op = "fire"
    /\ out.job.id = RecurringJobId
    /\ out.cancelled
    /\ Len(out.msgs) = 1 /\ out.msgs[1].ok

\* C16: a reminder creation that succeeded, by the modal or by free text that
\* resolved to a future instant, has stored one record owned by the requester
\* with the task, so that `list` by that user shows it.
C16_CreationPersists ==
    /\ (out.op = "natural" /\ out.calls = 1 /\ ~out.escaped) =>
          Len(SelectSeq(store, LAMBDA e : e.data.userId = out.user /\ e.data.task = out.task)) = 1
    /\ (out.op = "submit" /\ out.response = "success") =>
          /\ Len(store) > 0
          /\ store[Len(store)].data.userId = out.user
          /\ store[Len(store)].assoc = ReaderAssociation(out.user)

\* C17: for a weekday other than today's, the text with "next" resolves 7 days
\* after the next occurrence of that weekday, which is where the text without
\* "next" resolves: 8 to 13 days after today's date.
C17_NextAddsWeek ==
    parsed.done =>
        \A i \in 0..6 :
            i # getDay(pnow) =>
                \A c \in WeekdayCases(i) :
                    (c.hasNext /\ text = c.text) =>
                        /\ parsed.some
                        /\ parsed.time =
                              StartOfDay(pnow) + c.time
                              + (((i - getDay(pnow) + 7) % 7) + 7) * MsPerDay

\* the rank of a unit in the order days, hours, minutes, seconds
UnitRank(u) ==
    IF u \in {<<"d", "a", "y">>, <<"d", "a", "y", "s">>} THEN 1
    ELSE IF u \in {<<"h", "o", "u", "r">>, <<"h", "o", "u", "r", "s">>} THEN 2
    ELSE IF u \in {<<"m", "i", "n", "u", "t", "e">>, <<"m", "i", "n", "u", "t", "e", "s">>, <<"m", "i", "n">>, <<"m", "i", "n", "s">>} THEN 3
    ELSE 4

\* C18: of two "in N <unit>" phrases with different units in one text, the one
\* whose unit comes first in the order days, hours, minutes, seconds is honored,
\* wherever it stands in the text, and the result is now + that one duration.
C18_OneUnitHonored ==
    (parsed.done /\ Len(text) > 2 * Len(In3)) =>
        \A n1, n2 \in 1..2, u1, u2 \in UnitWords :
            (UnitRank(u1) # UnitRank(u2)
             /\ text = RelText(n1, u1) \o Sp \o RelText(n2, u2)) =>
                /\ parsed.some
                /\ parsed.time =
                      IF UnitRank(u1) < UnitRank(u2)
                      THEN pnow + n1 * UnitLength(u1)
                      ELSE pnow + n2 * UnitLength(u2)

C18_Witness ==
    /\ parsed.done
    /\ text = RelText(1, <<"s", "e", "c", "s">>) \o Sp \o RelText(2, <<"h", "o", "u", "r", "s">>)
    /\ parsed.time = pnow + 2 * MsPerHour

\* the hour a written time stands for: pm adds 12 exactly below 12, 12am is 0,
\* every other hour is the numeral
ExtractedHour(ts) ==
    IF ts.mer = "pm" /\ ts.h < 12 THEN ts.h + 12
    ELSE IF ts.mer = "am" /\ ts.h = 12 THEN 0
    ELSE ts.h

\* C19: a text that is a written time H[:MM][am|pm], H from 0 to 99, resolves
\* with the hour ExtractedHour and the minute MM, 0 when :MM is absent, with no
\* range check: the result is today's date at that hour and minute, or the day
\* after when that is not after now.
C19_TimeExtraction ==
    parsed.done =>
        \A ts \in BareTimeSpecs :
            text = TimeStr(ts) =>
                LET at == StartOfDay(pnow) + ExtractedHour(ts) * MsPerHour
                          + (IF ts.m >= 0 THEN ts.m ELSE 0) * MsPerMinute
                IN  /\ parsed.some
                    /\ parsed.time = IF at <= pnow THEN at + MsPerDay ELSE at

C19_Witness ==
    /\ parsed.done
    /\ text = TimeStr([h |-> 12, m |-> 30, mer |-> "pm", gap |-> TRUE])
    /\ pnow - StartOfDay(pnow) = 9 * MsPerHour
    /\ parsed.time = StartOfDay(pnow) + 12 * MsPerHour + 30 * MsPerMinute

\* C20: a fire event whose owner or destination lookup gives not-found writes a
\* log entry, sends no message and lets no error out.
C20_NotFoundLogged ==
    (out.op = "fire" /\ (out.userRes = "missing" \/ out.roomRes = "missing")) =>
        /\ out.logged
        /\ out.msgs = <<>>
        /\ ~out.escaped

\* the number of times a call occurs in the calls a handler made
Count(calls, c) == Cardinality({k \in 1..Len(calls) : calls[k] = c})

\* C21: a fire event looks the owner up at most once, the destination at most
\* once and attempts at most one delivery; a lookup or delivery that fails with
\* an error is logged, the processor returns normally, and a one-shot job is
\* consumed whatever the outcome: it is no longer armed, and one scheduling call
\* is followed by at most one fire.
C21_SingleAttempt ==
    /\ firesSince <= 1
    /\ out.op = "fire" =>
          /\ Count(out.calls, "getUser") <= 1
          /\ Count(out.calls, "getRoom") <= 1
          /\ Count(out.calls, "finish") <= 1
          /\ Len(out.msgs) = Count(out.calls, "finish")
          /\ ~out.escaped
          /\ (\/ out.userRes = "error"
              \/ out.roomRes = "error"
              \/ \E k \in 1..Len(out.msgs) : ~out.msgs[k].ok) => out.logged
          /\ out.job.kind = "once" => out.job \notin triggers

C21_Witness ==
    /\ out.op = "fire"
    /\ out.job.kind = "once"
    /\ Len(out.msgs) = 1 /\ ~out.msgs[1].ok
    /\ out.logged
    /\ \A t \in triggers : t.kind # "once"

\* C24: every one-shot scheduling of the command layer goes under one job id:
\* at most one one-shot trigger is pending, under that id, and it carries the
\* task, user, room and time of the most recent scheduling command; the command
\* that replaced another user's pending reminder sends its messages to its own
\* requester's room only.
C24_OneShotShared ==
    LET once == {t \in triggers : t.kind = "once"}
    IN  /\ Cardinality(once) <= 1
        /\ \A t \in once :
              /\ t.id = "reminder_job"
              /\ lastSched.some /\ t.data = lastSched.data /\ t.at = lastSched.at
        /\ out.op \in {"schedule", "natural"} =>
              \A k \in 1..Len(out.msgs) : out.msgs[k].to = RoomOf(out.user)

C24_Witness ==
    /\ out.op = "natural"
    /\ out.calls = 1
    /\ \E t \in out.before : t.kind = "once" /\ t.data.userId # out.user /\ t.at > out.now
    /\ Cardinality(triggers) = 1
    /\ \A t \in triggers : t.data = JobData(out.task, out.user)

\* C25: when `stop` removed an armed recurring trigger the requester is not sent
\* the not-found report, also when the stopped confirmation fails to be sent.
C25_NotFoundOnlyIfAbsent ==
    (out.op = "stop" /\ out.armed) =>
        \A k \in 1..Len(out.msgs) : out.msgs[k].kind # "not_found"

\* C27: the modal submit handler answers with the error response only when no
\* record was stored, and with the success response whenever one was, also when
\* the confirmation direct message fails.
C27_ErrorOnlyIfNotStored ==
    out.op = "submit" =>
        /\ out.response = "error" => ~out.created
        /\ out.created => out.response = "success"

\* whether the weekday class resolves the lowered text
WeekdayResolved(s) ==
    /\ ~RelativeClass(s, 0).some
    /\ ~HasTomorrow(s)
    /\ ~includes(s, Today)
    /\ HasWeekday(s)

\* C29: a text the weekday class resolves gives a date on the weekday named,
\* between 1 and 13 days after the date of now, whatever hour and minute the
\* text holds.
C29_WeekdayDate ==
    (parsed.done /\ WeekdayResolved(toLowerCase(text))) =>
        LET ahead == (StartOfDay(parsed.time) - StartOfDay(pnow)) \div MsPerDay
        IN  /\ parsed.some
            /\ getDay(parsed.time) = FirstWeekday(toLowerCase(text))
            /\ ahead >= 1 /\ ahead <= 13

FivePm == [h |-> 5, m |-> -1, mer |-> "pm", gap |-> FALSE]

\* C30: a text with a day word and the time 5pm resolves to 17:00 of its day,
\* whatever digits stand earlier in the text.
C30_MeridiemTimeKept ==
    parsed.done =>
        \A w \in DayWords :
            text = BuyApples \o Sp \o DayTimeText(FALSE, w, FivePm) =>
                /\ parsed.some
                /\ parsed.time - StartOfDay(parsed.time) = 17 * MsPerHour

\* the stored records of an owner
RecordsOf(st, u) == SelectSeq(st, LAMBDA e : e.data.userId = u)

\* C22: after the one-shot trigger of a reminder has fired, a stored record of
\* its owner is marked completed.
C22_FiredIsCompleted ==
    (out.op = "fire" /\ out.job.kind = "once" /\ Len(RecordsOf(store, out.user)) > 0) =>
        \E i \in 1..Len(store) :
            store[i].data.userId = out.user /\ store[i].data.completed

\* C23: a `list` or `clear` command leaves the armed triggers, one-shot and
\* recurring, and their payloads as they were.
C23_StoreCommandsKeepTriggers ==
    [][out'.op \in {"list", "clear"} => triggers' = triggers]_vars

C23_Witness ==
    /\ out.op = "clear"
    /\ \E k \in 1..Len(out.msgs) : out.msgs[k].kind = "cleared" /\ out.msgs[k].ok
    /\ \E t \in triggers : t.kind = "once" /\ t.data.userId = out.user /\ t.at > clock

\* C26: the count of the cleared message is the number of the sender's records
\* the command removed, whatever ran between its read and its removal.
C26_ClearedCount ==
    out.op = "clear" =>
        \A k \in 1..Len(out.msgs) :
            out.msgs[k].kind = "cleared" => out.msgs[k].count = out.removed

\* C28: a free text whose only cue is a valid time of day ends in a scheduled
\* one-shot trigger, not in the in-the-past message, also when the clock moves
\* between the resolver's reading and the command's.
C28_BareTimeScheduled ==
    (out.op = "natural" /\ out.task \in {Join(a) : a \in LagArgs}) =>
        /\ out.calls = 1
        /\ out.msgs[1].kind = "smart_schedule"

====
